---- MODULE Spec2Model ----
(***************************************************************************)
(* bcconvert: unpack archives of FLAC tracks, convert every track to MP3   *)
(* (flac --decode | lame), copy the vorbis comments over as ID3 tags and   *)
(* remove the original.  The model follows src/bcconvert.py on asyncio:    *)
(* callbacks of the event loop are atomic, external processes (metaflac,   *)
(* flac, lame) end in any order.                                           *)
(*                                                                         *)
(* A path is a record [dir, stem, ext]: dir is the sequence of directory   *)
(* names, stem the base name without extension, ext the extension with its *)
(* dot.  A name is a sequence of tokens; the token "-" stands for the      *)
(* " - " separator of an archive name.                                     *)
(***************************************************************************)
EXTENDS Integers, Sequences, FiniteSets, TLC

\* ------------------------------------------------------------------ bounds
\* Number of FLAC tracks packed in the archive that is converted.
MaxTracks == 2
\* Number of times the program is run over the same arguments.
MaxRuns == 2
\* Number of lines of a listing handed to the tag extractor on its own.
MaxLines == 3

\* ------------------------------------------------------------- path helpers
\* str.lower() on the extensions that occur.
Lower(ext) ==
    CASE ext = ".FLAC" -> ".flac"
      [] ext = ".Flac" -> ".flac"
      [] ext = ".ZIP"  -> ".zip"
      [] ext = ".MP3"  -> ".mp3"
      [] OTHER         -> ext

\* The directory a path names when it is used as a directory.
AsDir(p) == IF p.stem = <<>> THEN p.dir ELSE Append(p.dir, p.stem)

IsPrefix(s, t) == Len(s) <= Len(t) /\ SubSeq(t, 1, Len(s)) = s

\* A total order on a finite set of paths: the order in which a directory
\* listing hands them out (any fixed order).
RECURSIVE SetToSeq(_)
SetToSeq(S) ==
    IF S = {} THEN <<>>
    ELSE LET x == CHOOSE y \in S : TRUE IN <<x>> \o SetToSeq(S \ {x})

\* recurse(path): every file below the directory, at any depth.
recurse(disk, d) == {p \in disk : IsPrefix(d, p.dir)}

\* shallow(path): the files directly in the directory.
shallow(disk, d) == {p \in disk : p.dir = d}

\* get_all_matching(path, search_ext, descend): the path itself when its name
\* ends with the extension (case-insensitively), else the files of the
\* directory whose names do.
get_all_matching(disk, path, search_ext, descend) ==
    IF Lower(path.ext) = Lower(search_ext) THEN <<path>>
    ELSE LET iterator == IF descend THEN recurse(disk, AsDir(path))
                         ELSE shallow(disk, AsDir(path))
         IN SetToSeq({p \in iterator : Lower(p.ext) = Lower(search_ext)})

None == <<>>

\* generate_dest_dir_name(path): "<artist> - <album>.zip" gives the two
\* directory names artist/album; both patterns split at the last " - " that
\* has text on both sides.  None when the name has no such separator.
generate_dest_dir_name(path) ==
    LET s == path.stem
        cuts == {i \in 2..(Len(s) - 1) : s[i] = "-"}
    IN IF cuts = {} THEN None
       ELSE LET i == CHOOSE c \in cuts : \A o \in cuts : o <= c
            IN <<SubSeq(s, 1, i - 1), SubSeq(s, i + 1, Len(s))>>

\* mp3_path = os.path.splitext(flac_path)[0] + '.mp3'
Mp3Path(flac_path) == [flac_path EXCEPT !.ext = ".mp3"]

\* ---------------------------------------------------------- tag extraction
\* The attributes of an ID3 tag that TAG_MAP writes.
Attrs == {"title", "artist", "album", "track_num", "year", "album_artist"}

\* An attribute's value: unset, a text, or the pair (num, total) of a track
\* number; total is always None here.
Unset == [set |-> FALSE, text |-> <<>>, num |-> 0, total |-> None]
Text(v) == [set |-> TRUE, text |-> v, num |-> 0, total |-> None]
TrackNum(n) == [set |-> TRUE, text |-> <<>>, num |-> n, total |-> None]

\* The tag lame leaves in a fresh output file (--add-id3v2): no field set.
PlaceholderTag == [a \in Attrs |-> Unset]

\* bytes.decode('utf-8'): the element "<ff>" stands for a byte 0xff, which
\* is not valid UTF-8.
DecodeOk(value) == \A i \in 1..Len(value) : value[i] # "<ff>"

DigitVal(c) ==
    CASE c = "0" -> 0 [] c = "1" -> 1 [] c = "2" -> 2 [] c = "3" -> 3
      [] c = "4" -> 4 [] c = "5" -> 5 [] c = "6" -> 6 [] c = "7" -> 7
      [] c = "8" -> 8 [] c = "9" -> 9 [] OTHER -> -1

\* int(x) on a text of decimal digits; any other text raises ValueError.
IntOk(x) == Len(x) > 0 /\ \A i \in 1..Len(x) : DigitVal(x[i]) >= 0

RECURSIVE IntOf(_)
IntOf(x) ==
    IF x = <<>> THEN 0
    ELSE 10 * IntOf(SubSeq(x, 1, Len(x) - 1)) + DigitVal(x[Len(x)])

\* TAG_MAP: vorbis comment key -> (attribute, conversion).  The conversion
\* is kept in the setter and runs when the setter is applied to a tag.
TagKeys == {"TITLE", "ARTIST", "ALBUM", "TRACKNUMBER", "DATE", "ALBUMARTIST"}

TAG_MAP(key) ==
    CASE key = "TITLE"       -> [attr |-> "title", conv |-> "id"]
      [] key = "ARTIST"      -> [attr |-> "artist", conv |-> "id"]
      [] key = "ALBUM"       -> [attr |-> "album", conv |-> "id"]
      [] key = "TRACKNUMBER" -> [attr |-> "track_num", conv |-> "int"]
      [] key = "DATE"        -> [attr |-> "year", conv |-> "id"]
      [] key = "ALBUMARTIST" -> [attr |-> "album_artist", conv |-> "id"]

\* _setter(attr, f)(value): the deferred assignment.
Setter(key, value) ==
    [attr |-> TAG_MAP(key).attr, conv |-> TAG_MAP(key).conv, value |-> value]

\* A line of metaflac's listing: match says whether it has the shape
\* "  comment[N]: KEY=value" of the regular expression.
Line(key, value) == [match |-> TRUE, key |-> key, value |-> value]
OtherLine == [match |-> FALSE, key |-> "", value |-> <<>>]

\* Mutant of metaflac_stdout_to_setters: the setters are collected by key,
\* one for each key.
RECURSIVE metaflac_stdout_to_settersByKey(_)
metaflac_stdout_to_settersByKey(output) ==
    IF output = <<>> THEN [ok |-> TRUE, setters |-> <<>>]
    ELSE LET line == Head(output)
             rest == metaflac_stdout_to_settersByKey(Tail(output))
         IN IF ~line.match \/ line.key \notin TagKeys THEN rest
            ELSE IF ~DecodeOk(line.value) THEN [ok |-> FALSE, setters |-> <<>>]
            ELSE IF ~rest.ok THEN rest
            ELSE IF \E n \in 2..Len(output) : output[n].match /\ output[n].key = line.key
                 THEN rest
            ELSE [ok |-> TRUE,
                  setters |-> <<Setter(line.key, line.value)>> \o rest.setters]

\* metaflac_stdout_to_setters(output), consumed by list(): one setter per
\* matching line with a key of TAG_MAP, in the order of the lines; a value
\* that is not UTF-8 raises where its line is reached.
RECURSIVE metaflac_stdout_to_setters(_)
metaflac_stdout_to_setters(output) ==
    IF output = <<>> THEN [ok |-> TRUE, setters |-> <<>>]
    ELSE LET line == Head(output)
             rest == metaflac_stdout_to_setters(Tail(output))
         IN IF ~line.match \/ line.key \notin TagKeys THEN rest
            ELSE IF ~DecodeOk(line.value) THEN [ok |-> FALSE, setters |-> <<>>]
            ELSE IF ~rest.ok THEN rest
            ELSE [ok |-> TRUE,
                  setters |-> <<Setter(line.key, line.value)>> \o rest.setters]

\* innermost(tag): setattr(tag, attr, f(value)); f is int for a track
\* number and raises ValueError on a text that is no number.
SetterOk(setter) == setter.conv = "int" => IntOk(setter.value)

\* Mutant of ApplySetter: an attribute that is set is left as it is.
ApplySetterKeep(tag, setter) ==
    IF tag[setter.attr].set THEN tag
    ELSE [tag EXCEPT ![setter.attr] =
            IF setter.conv = "int" THEN TrackNum(IntOf(setter.value))
            ELSE Text(setter.value)]

ApplySetter(tag, setter) ==
    [tag EXCEPT ![setter.attr] =
        IF setter.conv = "int" THEN TrackNum(IntOf(setter.value))
        ELSE Text(setter.value)]

\* The loop of set_tags over the setters: the tag after the setters that
\* ran, and whether one of them raised (the loop stops there).
RECURSIVE ApplySetters(_, _)
ApplySetters(tag, setters) ==
    IF setters = <<>> THEN [ok |-> TRUE, tag |-> tag]
    ELSE IF ~SetterOk(Head(setters)) THEN [ok |-> FALSE, tag |-> tag]
    ELSE ApplySetters(ApplySetter(tag, Head(setters)), Tail(setters))

\* ------------------------------------------------------------------- inputs
\* --unpack-dir
dest_root == << <<"out">> >>

\* Archives on disk.  ZipA and ZipDup carry the same artist and album, ZipBad
\* has a name without " - ".
InDir == [dir |-> <<>>, stem |-> <<"in">>, ext |-> ""]
ZipA == [dir |-> << <<"in">> >>, stem |-> <<"X", "-", "Y">>, ext |-> ".zip"]
ZipBad == [dir |-> << <<"in">> >>, stem |-> <<"bad">>, ext |-> ".zip"]
ZipDup == [dir |-> << <<"in2">> >>, stem |-> <<"X", "-", "Y">>, ext |-> ".ZIP"]
Zips == {ZipA, ZipBad, ZipDup}

\* Member names of an archive, relative to the directory it unpacks to.
Flac(i) == [dir |-> <<>>, stem |-> <<"t", ToString(i)>>, ext |-> ".flac"]
Tracks == 1..MaxTracks

\* Listings metaflac prints for a track.
ListGood ==
    <<OtherLine, Line("TITLE", <<"F">>), Line("COMMENT", <<"c">>),
      Line("TRACKNUMBER", <<"1", "2">>), Line("TITLE", <<"G">>)>>
ListBadTrack == <<Line("ARTIST", <<"B">>), Line("TRACKNUMBER", <<"x">>)>>
ListBadUtf8 == <<Line("ALBUM", <<"<ff>">>)>>
Listings == {ListGood, ListBadTrack, ListBadUtf8}

\* The tag of an MP3 file that comes out of an archive.
OldTag == [PlaceholderTag EXCEPT !["title"] = Text(<<"old">>)]

\* Command lines: the root paths and the --no-descend flag.
ArgChoices ==
    { [paths |-> <<ZipA>>, descend |-> TRUE],
      [paths |-> <<InDir>>, descend |-> FALSE],
      [paths |-> <<ZipDup, ZipA>>, descend |-> TRUE] }

\* The external commands, in the order check_commands tries them.
CommandList == <<"flac", "lame", "metaflac">>
Commands == {CommandList[n] : n \in 1..Len(CommandList)}

\* Exit codes of an external process.
ExitCodes == {0, 1}

\* -------------------------------------------------------------------- state
VARIABLES
    args,       \* the command line: [paths, descend]
    tools,      \* command -> what running "<command> --help" does
    checks,     \* number of calls of check_commands in the current run
    zipFlac,    \* archive -> member name -> listing of that FLAC member
    zipMp3,     \* archive -> names of its MP3 members
    disk,       \* the files that exist
    dirs,       \* the directories that exist
    audio,      \* FLAC file -> the listing metaflac prints for it
    id3,        \* MP3 file -> its saved tag
    run,        \* number of the current run of the program
    snap,       \* disk, dirs and id3 as they were when the current run began
    mainPc,     \* main: "check" (before check_commands), "aborted" (it raised);
                \* main_loop: "discover", "gather", "returned", "raised"
    mainRet,    \* what main_loop returned
    pathIdx,    \* index in args.paths of the next root path
    zipq,       \* archives of the current root path still to unpack
    pl,         \* all_converted_files: one record per convert_flac coroutine
    bench       \* the tag extractor on its own: a listing, the setters made
                \* from it and the tag they give ("off" while the program runs)

vars == <<args, tools, checks, zipFlac, zipMp3, disk, dirs, audio, id3, run,
          snap, mainPc, mainRet, pathIdx, zipq, pl, bench>>

inputs == <<args, tools, zipFlac, zipMp3, bench>>

\* Update a function at one point, adding the point if needed.
Put(f, k, v) == [x \in DOMAIN f \cup {k} |-> IF x = k THEN v ELSE f[x]]

\* A member name placed under a directory.
Under(dest, m) == [m EXCEPT !.dir = dest \o m.dir]

\* The extractor on its own is not in use.
BenchOff == [pc |-> "off", text |-> <<>>, ok |-> TRUE, setters |-> <<>>,
             tag |-> PlaceholderTag]

Init ==
    /\ args \in ArgChoices
    /\ tools \in [Commands -> {"ok", "absent", "fails"}]
    /\ checks = 0
    /\ \E ls \in [Tracks -> Listings], old \in SUBSET {Mp3Path(Flac(1))} :
         /\ zipFlac = [z \in Zips |->
                IF z = ZipA THEN [m \in {Flac(i) : i \in Tracks} |->
                                    ls[CHOOSE i \in Tracks : Flac(i) = m]]
                ELSE [m \in {Flac(1)} |-> ListGood]]
         /\ zipMp3 = [z \in Zips |-> IF z = ZipA THEN old ELSE {}]
    /\ disk = Zips
    /\ dirs = {<<>>, << <<"in">> >>, << <<"in2">> >>, dest_root}
    /\ audio = <<>>
    /\ id3 = <<>>
    /\ run = 1
    /\ snap = [disk |-> disk, dirs |-> dirs, id3 |-> id3]
    /\ mainPc = "check"
    /\ mainRet = None
    /\ pathIdx = 1
    /\ zipq = <<>>
    /\ pl = <<>>
    /\ bench = BenchOff

\* ------------------------------------------------------------ check_commands
\* Mutant of check_commands: missing commands are not reported.
check_commandsSilent(t) == "ok"

\* check_commands(): every command is run with --help.  A command that
\* cannot be started (EnvironmentError) is collected as missing, and
\* RuntimeError is raised at the end when one is; a command that starts and
\* ends with a non-zero exit code makes check_call raise CalledProcessError,
\* which is not caught.
check_commands(t) ==
    LET failing == {n \in 1..Len(CommandList) : t[CommandList[n]] = "fails"}
        missing == {n \in 1..Len(CommandList) : t[CommandList[n]] = "absent"}
    IN IF failing # {} THEN "CalledProcessError"
       ELSE IF missing # {} THEN "RuntimeError"
       ELSE "ok"

\* main, lines 257-258: check_commands() before the loop is created.
CheckCommands ==
    /\ mainPc = "check"
    /\ checks' = checks + 1
    /\ mainPc' = IF check_commands(tools) = "ok" THEN "discover" ELSE "aborted"
    /\ UNCHANGED <<inputs, disk, dirs, audio, id3, run, snap, mainRet, pathIdx, zipq, pl>>

\* ---------------------------------------------------------------- unpacking
\* A directory name as a path.
DirPath(d) == [dir |-> SubSeq(d, 1, Len(d) - 1), stem |-> d[Len(d)], ext |-> ""]

\* Mutant of unzip_serial: an existing directory is unpacked into again.
unzip_serialAgain(ds, path, root) ==
    IF generate_dest_dir_name(path) = None THEN None
    ELSE root \o generate_dest_dir_name(path)

\* unzip_serial(path, dest_root): the directory the archive is unpacked to,
\* or None when the archive is not unpacked (its name gives no directory, or
\* the directory exists already).
unzip_serial(ds, path, root) ==
    LET dest_dir_name == generate_dest_dir_name(path)
        dest == root \o dest_dir_name
    IN IF dest_dir_name = None THEN None
       ELSE IF dest \in ds THEN None
       ELSE dest

\* os.makedirs(dest): the directory and its missing parents.
makedirs(ds, dest) == ds \cup {SubSeq(dest, 1, n) : n \in 1..Len(dest)}

\* zfp.extractall(dest): the members of the archive, placed under dest.
Extracted(z, dest) ==
    {Under(dest, m) : m \in DOMAIN zipFlac[z]} \cup {Under(dest, m) : m \in zipMp3[z]}

\* The coroutine object convert_flac(loop, flac_path), not yet started.
\*   pc       where convert_flac stands: "created", "ready" (its task is
\*            scheduled), "join" (awaiting the gather of its two children),
\*            "tagging" (before set_tags), "removing" (before os.remove),
\*            "returned", "raised"
\*   tt, cv   the tasks of get_tag_setters and convert_file_only
\*   gexc     the exception the gather of the two children holds
\*   opened   lame has created the output file
\*   rc1, rc2 exit codes of flac and lame; -1 while they have not ended
\*   existed  the output file was there when convert_flac started
\*   saved    set_tags has saved the tag of the output file
\*   ret      what convert_flac returned: "None" or "mp3_path"
NewPipeline(flac_path) ==
    [flac |-> flac_path, mp3 |-> Mp3Path(flac_path), pc |-> "created",
     existed |-> FALSE, tt |-> "new", cv |-> "new", setters |-> <<>>,
     gexc |-> "", opened |-> FALSE, rc1 |-> -1, rc2 |-> -1,
     returncode |-> -1, saved |-> FALSE, ret |-> "None", exc |-> ""]

Pipelines(files) == [k \in 1..Len(files) |-> NewPipeline(files[k])]

\* main_loop, line 246: the next root path; its archives are listed.
NextRoot ==
    /\ mainPc = "discover"
    /\ zipq = <<>>
    /\ pathIdx <= Len(args.paths)
    /\ zipq' = get_all_matching(disk, args.paths[pathIdx], ".zip", args.descend)
    /\ pathIdx' = pathIdx + 1
    /\ UNCHANGED <<inputs, checks, disk, dirs, audio, id3, run, snap, mainPc, mainRet, pl>>

\* main_loop, lines 247-252: one archive is unpacked and a convert_flac
\* coroutine is created for every FLAC file found below its directory.
UnzipStep ==
    /\ mainPc = "discover"
    /\ zipq # <<>>
    /\ LET zippath == Head(zipq)
           dirname == unzip_serial(dirs, zippath, dest_root)
       IN /\ zipq' = Tail(zipq)
          /\ IF dirname = None
             THEN UNCHANGED <<disk, dirs, audio, id3, pl>>
             ELSE /\ dirs' = makedirs(dirs, dirname)
                  /\ disk' = disk \cup Extracted(zippath, dirname)
                  /\ audio' = [f \in DOMAIN audio
                                    \cup {Under(dirname, m) : m \in DOMAIN zipFlac[zippath]} |->
                                 IF \E m \in DOMAIN zipFlac[zippath] : Under(dirname, m) = f
                                 THEN zipFlac[zippath][CHOOSE m \in DOMAIN zipFlac[zippath] :
                                                          Under(dirname, m) = f]
                                 ELSE audio[f]]
                  /\ id3' = [f \in DOMAIN id3
                                    \cup {Under(dirname, m) : m \in zipMp3[zippath]} |->
                                 IF \E m \in zipMp3[zippath] : Under(dirname, m) = f
                                 THEN OldTag ELSE id3[f]]
                  /\ pl' = pl \o Pipelines(
                                get_all_matching(disk', DirPath(dirname), ".flac", TRUE))
    /\ UNCHANGED <<inputs, checks, run, snap, mainPc, mainRet, pathIdx>>

\* main_loop, line 253: asyncio.gather wraps every coroutine in a task and
\* main_loop waits for them.
Gather ==
    /\ mainPc = "discover"
    /\ zipq = <<>>
    /\ pathIdx > Len(args.paths)
    /\ mainPc' = "gather"
    /\ pl' = [k \in DOMAIN pl |-> [pl[k] EXCEPT !.pc = "ready"]]
    /\ UNCHANGED <<inputs, checks, disk, dirs, audio, id3, run, snap, mainRet, pathIdx, zipq>>

\* --------------------------------------------------------------- event loop
\* A callback of the loop runs to its end before the next one starts:
\* convert_flac between the gather and its return (set_tags, os.remove) is one
\* callback.
Busy == \E k \in DOMAIN pl : pl[k].pc \in {"tagging", "removing"}

\* The loop runs while main_loop waits in its gather.
Running == mainPc = "gather" /\ ~Busy

\* Tasks start in the order they were scheduled: first every convert_flac,
\* then the two children of each in turn (each starts its metaflac).
AllStarted == \A k \in DOMAIN pl : pl[k].pc # "ready"
Launched(k) == pl[k].tt # "ready" /\ pl[k].cv # "ready"
AllLaunched == AllStarted /\ \A k \in DOMAIN pl : Launched(k)

\* The loop handles the end of a process, or the end of a task, only after
\* every task that was scheduled before has had its first turn.
Handling == Running /\ AllLaunched

\* Mutant of OutputExists: the entry check is left out.
OutputExistsIgnored(d, mp3_path) == FALSE

\* os.path.exists(mp3_path)
OutputExists(d, mp3_path) == mp3_path \in d

\* os.remove(path) of a file that exists.
RemoveFile(d, path) == d \ {path}

\* The exception a gather holds is the first one a child raised.
First(gexc, exc) == IF gexc = "" THEN exc ELSE gexc

\* convert_flac, lines 223-229, up to its await of the gather.
ConvertStart(i) ==
    /\ Running
    /\ pl[i].pc = "ready"
    /\ \A k \in 1..(i - 1) : pl[k].pc # "ready"
    /\ LET existed == pl[i].mp3 \in disk
       IN IF OutputExists(disk, pl[i].mp3)
          THEN pl' = [pl EXCEPT ![i].pc = "returned", ![i].existed = existed]
          ELSE pl' = [pl EXCEPT ![i].pc = "join", ![i].existed = existed,
                                ![i].tt = "ready", ![i].cv = "ready"]
    /\ UNCHANGED <<inputs, checks, disk, dirs, audio, id3, run, snap, mainPc, mainRet,
                   pathIdx, zipq>>

\* get_tag_setters, lines 181-188: metaflac is started.
TagLaunch(i) ==
    /\ Running /\ AllStarted
    /\ pl[i].tt = "ready"
    /\ \A k \in 1..(i - 1) : Launched(k)
    /\ pl' = [pl EXCEPT ![i].tt = "proc"]
    /\ UNCHANGED <<inputs, checks, disk, dirs, audio, id3, run, snap, mainPc, mainRet,
                   pathIdx, zipq>>

\* What metaflac prints for a file.
MetaflacStdout(flac_path) ==
    IF flac_path \in disk /\ flac_path \in DOMAIN audio THEN audio[flac_path] ELSE <<>>

\* get_tag_setters, lines 189-190: metaflac has ended and its listing is
\* turned into the list of setters.
TagExit(i) ==
    /\ Handling
    /\ pl[i].tt = "proc"
    /\ LET r == metaflac_stdout_to_setters(MetaflacStdout(pl[i].flac))
       IN IF r.ok
          THEN pl' = [pl EXCEPT ![i].tt = "done", ![i].setters = r.setters]
          ELSE pl' = [pl EXCEPT ![i].tt = "raised",
                                ![i].gexc = First(pl[i].gexc, "ValueError")]
    /\ UNCHANGED <<inputs, checks, disk, dirs, audio, id3, run, snap, mainPc, mainRet,
                   pathIdx, zipq>>

\* convert_file_only, line 205: its own get_tag_setters starts metaflac.
ConvLaunch(i) ==
    /\ Running /\ AllStarted
    /\ pl[i].cv = "ready"
    /\ pl[i].tt # "ready"
    /\ \A k \in 1..(i - 1) : Launched(k)
    /\ pl' = [pl EXCEPT ![i].cv = "meta"]
    /\ UNCHANGED <<inputs, checks, disk, dirs, audio, id3, run, snap, mainPc, mainRet,
                   pathIdx, zipq>>

\* convert_file_only, lines 205-212: that metaflac has ended; the setters are
\* dropped and flac | lame is started.
ConvMetaExit(i) ==
    /\ Handling
    /\ pl[i].cv = "meta"
    /\ LET r == metaflac_stdout_to_setters(MetaflacStdout(pl[i].flac))
       IN IF r.ok
          THEN pl' = [pl EXCEPT ![i].cv = "pipe"]
          ELSE pl' = [pl EXCEPT ![i].cv = "raised",
                                ![i].gexc = First(pl[i].gexc, "ValueError")]
    /\ UNCHANGED <<inputs, checks, disk, dirs, audio, id3, run, snap, mainPc, mainRet,
                   pathIdx, zipq>>

\* lame opens its output file: the file exists from here on, with the
\* placeholder tag of --add-id3v2.  A step of the lame process, not of the
\* loop.
LameOpen(i) ==
    /\ pl[i].cv = "pipe"
    /\ ~pl[i].opened
    /\ disk' = disk \cup {pl[i].mp3}
    /\ id3' = Put(id3, pl[i].mp3, PlaceholderTag)
    /\ pl' = [pl EXCEPT ![i].opened = TRUE]
    /\ UNCHANGED <<inputs, checks, dirs, audio, run, snap, mainPc, mainRet, pathIdx, zipq>>

\* Mutant of pipe_cmds: the exit code of the first process.
pipe_cmdsFirst(rc1, rc2) == rc1

\* pipe_cmds, line 201: the exit code of the last process of the chain.
pipe_cmds(rc1, rc2) == rc2

\* Mutant of TranscodeFailed: the exit code is not looked at.
TranscodeFailedNever(returncode) == FALSE

\* convert_file_only, line 214.
TranscodeFailed(returncode) == returncode # 0

\* Mutant of Rollback: the output file is left behind.
RollbackSkipped(d, mp3_path) == d

\* convert_file_only, lines 215-218: os.remove(mp3_path), any error passed
\* over.
Rollback(d, mp3_path) == IF mp3_path \in d THEN RemoveFile(d, mp3_path) ELSE d

\* pipe_cmds and convert_file_only, lines 200-219: flac and lame have ended.
\* lame ends with 0 only after it has written its output file.
PipeExit(i) ==
    /\ Handling
    /\ pl[i].cv = "pipe"
    /\ \E rc1 \in ExitCodes, rc2 \in ExitCodes :
         /\ rc2 = 0 => pl[i].opened
         /\ LET returncode == pipe_cmds(rc1, rc2)
            IN IF TranscodeFailed(returncode)
               THEN /\ disk' = Rollback(disk, pl[i].mp3)
                    /\ id3' = [f \in DOMAIN id3 \cap disk' |-> id3[f]]
                    /\ pl' = [pl EXCEPT ![i].cv = "raised", ![i].rc1 = rc1,
                                        ![i].rc2 = rc2, ![i].returncode = returncode,
                                        ![i].gexc = First(pl[i].gexc, "RuntimeError")]
               ELSE /\ pl' = [pl EXCEPT ![i].cv = "done", ![i].rc1 = rc1,
                                        ![i].rc2 = rc2, ![i].returncode = returncode]
                    /\ UNCHANGED <<disk, id3>>
    /\ UNCHANGED <<inputs, checks, dirs, audio, run, snap, mainPc, mainRet, pathIdx, zipq>>

\* Mutant of Caught: the try block catches nothing.
CaughtNothing(exc) == FALSE

\* convert_flac, line 234: the exceptions its try block catches.
Caught(exc) == exc = "RuntimeError"

\* convert_flac, lines 231-235: the gather of the two children is over, with
\* the first exception a child raised or with both results.
ConvertJoin(i) ==
    /\ Handling
    /\ pl[i].pc = "join"
    /\ pl[i].gexc # "" \/ (pl[i].tt = "done" /\ pl[i].cv = "done")
    /\ pl' = IF pl[i].gexc = "" THEN [pl EXCEPT ![i].pc = "tagging"]
             ELSE IF Caught(pl[i].gexc) THEN [pl EXCEPT ![i].pc = "returned"]
             ELSE [pl EXCEPT ![i].pc = "raised", ![i].exc = pl[i].gexc]
    /\ UNCHANGED <<inputs, checks, disk, dirs, audio, id3, run, snap, mainPc, mainRet,
                   pathIdx, zipq>>

\* Mutant of set_tags: the tag is saved as it was loaded.
set_tagsUnsaved(tag, setters) == [ok |-> ApplySetters(tag, setters).ok, tag |-> tag]

\* set_tags, lines 169-172: the tag of the file after every setter has run,
\* or a failure when a setter raises; the tag is saved only at the end.
set_tags(tag, setters) == ApplySetters(tag, setters)

\* Mutant of AfterSetTags: an exception of set_tags is passed over.
AfterSetTagsSwallowed(ok) == "removing"

\* convert_flac, line 237: where it goes on after set_tags.
AfterSetTags(ok) == IF ok THEN "removing" ELSE "raised"

\* convert_flac, line 237: set_tags(mp3_path, setters).
SetTags(i) ==
    /\ mainPc = "gather"
    /\ pl[i].pc = "tagging"
    /\ IF pl[i].mp3 \notin disk
       THEN /\ pl' = [pl EXCEPT ![i].pc = "raised", ![i].exc = "IOError"]
            /\ UNCHANGED id3
       ELSE LET r == set_tags(id3[pl[i].mp3], pl[i].setters)
            IN /\ id3' = IF r.ok THEN Put(id3, pl[i].mp3, r.tag) ELSE id3
               /\ pl' = [pl EXCEPT ![i].pc = AfterSetTags(r.ok),
                                   ![i].saved = r.ok,
                                   ![i].exc = IF r.ok THEN "" ELSE "ValueError"]
    /\ UNCHANGED <<inputs, checks, disk, dirs, audio, run, snap, mainPc, mainRet, pathIdx, zipq>>

\* convert_flac, lines 240-241: os.remove(flac_path); return mp3_path.
RemoveSource(i) ==
    /\ mainPc = "gather"
    /\ pl[i].pc = "removing"
    /\ IF pl[i].flac \in disk
       THEN /\ disk' = RemoveFile(disk, pl[i].flac)
            /\ pl' = [pl EXCEPT ![i].pc = "returned", ![i].ret = "mp3_path"]
       ELSE /\ pl' = [pl EXCEPT ![i].pc = "raised", ![i].exc = "OSError"]
            /\ UNCHANGED disk
    /\ UNCHANGED <<inputs, checks, dirs, audio, id3, run, snap, mainPc, mainRet, pathIdx, zipq>>

\* main_loop, line 253: the gather of all convert_flac tasks is over.  The
\* first task that raises ends it with that exception, whatever the other
\* tasks are doing; main_loop has no return statement.
MainFinish ==
    /\ Handling
    /\ \/ /\ \E k \in DOMAIN pl : pl[k].pc = "raised"
          /\ mainPc' = "raised"
       \/ /\ \A k \in DOMAIN pl : pl[k].pc = "returned"
          /\ mainPc' = "returned"
    /\ mainRet' = None
    /\ UNCHANGED <<inputs, checks, disk, dirs, audio, id3, run, snap, pathIdx, zipq, pl>>

\* The program is run again on the same command line.
NextRun ==
    /\ mainPc \in {"aborted", "returned", "raised"}
    /\ run < MaxRuns
    /\ run' = run + 1
    /\ snap' = [disk |-> disk, dirs |-> dirs, id3 |-> id3]
    /\ mainPc' = "check"
    /\ checks' = 0
    /\ mainRet' = None
    /\ pathIdx' = 1
    /\ zipq' = <<>>
    /\ pl' = <<>>
    /\ UNCHANGED <<inputs, disk, dirs, audio, id3>>

Next ==
    \/ CheckCommands
    \/ NextRoot
    \/ UnzipStep
    \/ Gather
    \/ \E i \in DOMAIN pl : ConvertStart(i)
    \/ \E i \in DOMAIN pl : TagLaunch(i)
    \/ \E i \in DOMAIN pl : TagExit(i)
    \/ \E i \in DOMAIN pl : ConvLaunch(i)
    \/ \E i \in DOMAIN pl : ConvMetaExit(i)
    \/ \E i \in DOMAIN pl : LameOpen(i)
    \/ \E i \in DOMAIN pl : PipeExit(i)
    \/ \E i \in DOMAIN pl : ConvertJoin(i)
    \/ \E i \in DOMAIN pl : SetTags(i)
    \/ \E i \in DOMAIN pl : RemoveSource(i)
    \/ MainFinish
    \/ NextRun

Spec == Init /\ [][Next]_vars

\* =================================================================== claims
Terminal(k) == pl[k].pc \in {"returned", "raised"}
Committed(k) == pl[k].pc = "returned" /\ pl[k].ret = "mp3_path"
PipeEnded(k) == pl[k].rc2 >= 0

\* The tag a listing asks for: every attribute has the value of the last
\* line that carries its key, and is unset when no line does.
KeyOf(a) == CHOOSE key \in TagKeys : TAG_MAP(key).attr = a
ExpectedTag(listing) ==
    [a \in Attrs |->
        LET at == {n \in 1..Len(listing) : listing[n].match /\ listing[n].key = KeyOf(a)}
        IN IF at = {} THEN Unset
           ELSE LET n == CHOOSE m \in at : \A o \in at : o <= m
                IN IF a = "track_num" THEN TrackNum(IntOf(listing[n].value))
                   ELSE Text(listing[n].value)]

\* The listing has a TRACKNUMBER that is no number.
BadTrackNumber(listing) ==
    \E n \in 1..Len(listing) :
        listing[n].match /\ listing[n].key = "TRACKNUMBER" /\ ~IntOk(listing[n].value)

\* Every value of the listing is UTF-8.
AllUtf8(listing) == \A n \in 1..Len(listing) : DecodeOk(listing[n].value)

\* C1: when lame ends with a non-zero exit code for a file whose output did
\* not exist at the start, then once convert_flac has finished the output
\* file does not exist and the source file still does.
C1_RollbackOnLameFailure ==
    \A k \in DOMAIN pl :
        (Terminal(k) /\ ~pl[k].existed /\ pl[k].rc2 > 0)
            => (pl[k].mp3 \notin disk /\ pl[k].flac \in disk)

C1_Witness ==
    \E k \in DOMAIN pl :
        /\ Terminal(k) /\ ~pl[k].existed /\ pl[k].rc2 > 0
        /\ pl[k].opened /\ pl[k].mp3 \notin disk

\* C2: the tag is saved only after the transcode has ended with exit code 0,
\* the source file is gone only after the tag has been saved, and a
\* convert_flac in which set_tags raised leaves the source file in place.
C2_CommitOrder ==
    \A k \in DOMAIN pl :
        /\ pl[k].saved => (pl[k].cv = "done" /\ pl[k].returncode = 0)
        /\ pl[k].flac \notin disk => pl[k].saved
        /\ (pl[k].pc = "raised" /\ pl[k].cv = "done") => pl[k].flac \in disk

C2_Witness ==
    \E k \in DOMAIN pl :
        /\ pl[k].pc = "raised" /\ pl[k].exc = "ValueError" /\ pl[k].cv = "done"
        /\ ~pl[k].saved /\ pl[k].flac \in disk

\* C3: whenever convert_flac has returned the output path, the source file
\* is gone and the output file exists with exactly the tag the listing of the
\* source file asks for.
C3_CommitState ==
    \A k \in DOMAIN pl :
        Committed(k) =>
            /\ pl[k].flac \notin disk
            /\ pl[k].mp3 \in disk
            /\ id3[pl[k].mp3] = ExpectedTag(audio[pl[k].flac])

C3_Witness ==
    \E k \in DOMAIN pl :
        /\ Committed(k)
        /\ audio[pl[k].flac] = ListGood
        /\ id3[pl[k].mp3]["title"] = Text(<<"G">>)
        /\ id3[pl[k].mp3]["track_num"] = TrackNum(12)

\* The three terminal states of a pipeline.
CommittedState(k) ==
    /\ Committed(k) /\ pl[k].saved
    /\ pl[k].mp3 \in disk /\ pl[k].flac \notin disk
FailedRollbackState(k) ==
    /\ ~pl[k].existed
    /\ pl[k].mp3 \notin disk /\ pl[k].flac \in disk
SkippedExistingState(k) ==
    /\ pl[k].existed /\ pl[k].pc = "returned" /\ pl[k].ret = "None"
    /\ pl[k].mp3 \in disk /\ id3[pl[k].mp3] = OldTag /\ pl[k].flac \in disk

\* C4: every convert_flac that has finished is in one of the states
\* Committed, FailedRollback, SkippedExisting; none ends with a new output
\* file on disk and the source file still there.
C4_ThreeTerminalStates ==
    \A k \in DOMAIN pl :
        Terminal(k) =>
            CommittedState(k) \/ FailedRollbackState(k) \/ SkippedExistingState(k)

\* C5: when main_loop has ended and the only failures were failed transcodes
\* and track numbers that are no numbers, every file with a sound listing
\* whose transcode did not fail is Committed.
C5_SiblingsComplete ==
    (mainPc \in {"returned", "raised"}
        /\ \A k \in DOMAIN pl : AllUtf8(audio[pl[k].flac]))
    => \A k \in DOMAIN pl :
          (~pl[k].existed /\ ~BadTrackNumber(audio[pl[k].flac]) /\ pl[k].rc2 <= 0)
              => Committed(k)

\* C6: a file with a TRACKNUMBER that is no number ends like a failed
\* transcode: convert_flac returns without raising, no output file is left
\* and the source file is kept.
C6_ParseErrorRollsBack ==
    \A k \in DOMAIN pl :
        (Terminal(k) /\ ~pl[k].existed /\ BadTrackNumber(audio[pl[k].flac]))
            => (pl[k].pc = "returned" /\ pl[k].mp3 \notin disk /\ pl[k].flac \in disk)

\* C7: a convert_flac that found its output file at the start has returned
\* None without starting metaflac, flac or lame; the output file is there
\* with the tag it had, and the source file is there.
C7_EntryGuard ==
    \A k \in DOMAIN pl :
        (pl[k].existed /\ pl[k].pc # "ready")
            => /\ pl[k].pc = "returned" /\ pl[k].ret = "None"
               /\ pl[k].tt = "new" /\ pl[k].cv = "new" /\ ~pl[k].opened
               /\ pl[k].mp3 \in disk /\ id3[pl[k].mp3] = OldTag
               /\ pl[k].flac \in disk

C7_Witness ==
    /\ mainPc = "returned"
    /\ \E k \in DOMAIN pl : pl[k].existed /\ pl[k].pc = "returned"
    /\ \E k \in DOMAIN pl : Committed(k)

\* C8: in a second run over the same command line no convert_flac is
\* created, files, directories and tags stay as the first run left them, and
\* main_loop does not raise.
C8_SecondRunIdle ==
    run > 1 =>
        /\ pl = <<>>
        /\ disk = snap.disk /\ dirs = snap.dirs /\ id3 = snap.id3
        /\ mainPc # "raised"

C8_Witness ==
    /\ run = 2 /\ mainPc = "returned"
    /\ \E f \in disk : f.ext = ".mp3" /\ id3[f] # OldTag
    /\ \E f \in disk : f.ext = ".flac"

\* C9: the chain returns the exit code of lame; the transcode counts as
\* failed exactly when that code is not 0, whatever the exit code of flac;
\* with lame at 0 and setters that all apply, convert_flac commits.
C9_LastStageDecides ==
    \A k \in DOMAIN pl :
        PipeEnded(k) =>
            /\ pl[k].returncode = pl[k].rc2
            /\ (pl[k].cv = "raised") <=> (pl[k].rc2 # 0)
            /\ (Terminal(k) /\ pl[k].rc2 = 0 /\ ~BadTrackNumber(audio[pl[k].flac]))
                  => CommittedState(k)

C9_Witness ==
    \E k \in DOMAIN pl :
        pl[k].rc1 # 0 /\ pl[k].rc2 = 0 /\ CommittedState(k)

\* The output paths of the pipelines that committed, in the order of
\* all_converted_files.
RECURSIVE ConvertedFiles(_)
ConvertedFiles(n) ==
    IF n = 0 THEN <<>>
    ELSE IF Committed(n) THEN Append(ConvertedFiles(n - 1), pl[n].mp3)
    ELSE ConvertedFiles(n - 1)

\* main_loop has returned from a run of at least two pipelines that all ran
\* their transcode, of which exactly one failed.
OneTranscodeFailed ==
    /\ mainPc = "returned"
    /\ Len(pl) >= 2
    /\ \A k \in DOMAIN pl : PipeEnded(k)
    /\ Cardinality({k \in DOMAIN pl : pl[k].rc2 > 0}) = 1

NoWorkDone ==
    /\ pl = <<>>
    /\ disk = snap.disk /\ dirs = snap.dirs /\ id3 = snap.id3

\* C11: check_commands is called once in a run, before any work; when a
\* command is absent the run ends there, and no archive is unpacked, no
\* pipeline exists and no file is created or deleted.
C11_ToolCheckFirst ==
    /\ checks <= 1
    /\ mainPc # "check" => checks = 1
    /\ mainPc = "check" => NoWorkDone
    /\ (\E c \in Commands : tools[c] = "absent")
          => (mainPc \in {"check", "aborted"} /\ NoWorkDone /\ disk = Zips)

C11_Witness ==
    /\ mainPc = "aborted" /\ checks = 1
    /\ tools["flac"] = "ok" /\ tools["lame"] = "absent" /\ tools["metaflac"] = "ok"

\* ------------------------------------------------- the extractor on its own
\* Lines a listing is made of: comment lines with keys of TAG_MAP and other
\* keys, a line that is no comment line, values that are no number or no
\* UTF-8.
BenchLines ==
    {OtherLine, Line("TITLE", <<"F">>), Line("TITLE", <<"G">>), Line("ARTIST", <<"B">>),
     Line("COMMENT", <<"c">>), Line("TRACKNUMBER", <<"7">>), Line("TRACKNUMBER", <<"x">>),
     Line("ALBUM", <<"<ff>">>)}

BenchTexts == UNION {[1..n -> BenchLines] : n \in 0..MaxLines}

\* The program is not running.
ProgramIdle ==
    /\ args = CHOOSE a \in ArgChoices : TRUE
    /\ tools = [c \in Commands |-> "ok"]
    /\ checks = 0
    /\ zipFlac = [z \in Zips |-> <<>>]
    /\ zipMp3 = [z \in Zips |-> {}]
    /\ disk = Zips
    /\ dirs = {<<>>, dest_root}
    /\ audio = <<>>
    /\ id3 = <<>>
    /\ run = 1
    /\ snap = [disk |-> disk, dirs |-> dirs, id3 |-> id3]
    /\ mainPc = "check"
    /\ mainRet = None
    /\ pathIdx = 1
    /\ zipq = <<>>
    /\ pl = <<>>

program == <<args, tools, checks, zipFlac, zipMp3, disk, dirs, audio, id3, run,
             snap, mainPc, mainRet, pathIdx, zipq, pl>>

InitExtract ==
    /\ ProgramIdle
    /\ \E text \in BenchTexts : bench = [BenchOff EXCEPT !.pc = "text", !.text = text]

\* get_tag_setters, line 190: list(metaflac_stdout_to_setters(stdout)).
Extract ==
    /\ bench.pc = "text"
    /\ LET r == metaflac_stdout_to_setters(bench.text)
       IN bench' = [bench EXCEPT !.pc = IF r.ok THEN "setters" ELSE "extract_raised",
                                 !.ok = r.ok, !.setters = r.setters]
    /\ UNCHANGED program

\* set_tags, lines 170-172, on the tag of a fresh output file.
Apply ==
    /\ bench.pc = "setters"
    /\ LET r == set_tags(PlaceholderTag, bench.setters)
       IN bench' = [bench EXCEPT !.pc = IF r.ok THEN "saved" ELSE "apply_raised",
                                 !.ok = r.ok,
                                 !.tag = IF r.ok THEN r.tag ELSE PlaceholderTag]
    /\ UNCHANGED program

NextExtract == Extract \/ Apply

SpecExtract == InitExtract /\ [][NextExtract]_vars

\* A comment line with a key of TAG_MAP.
IsRecognized(line) == line.match /\ line.key \in TagKeys

\* The recognized lines of a listing, in their order.
Recognized(text) == SelectSeq(text, IsRecognized)

\* The recognized lines that are the first with their key.
RECURSIVE FirstOnly(_, _)
FirstOnly(text, n) ==
    IF n = 0 THEN <<>>
    ELSE IF IsRecognized(text[n])
            /\ ~\E m \in 1..(n - 1) : text[m].match /\ text[m].key = text[n].key
         THEN Append(FirstOnly(text, n - 1), text[n])
         ELSE FirstOnly(text, n - 1)

\* The setters are those of the lines, one for one.
SettersOf(setters, lines) ==
    /\ Len(setters) = Len(lines)
    /\ \A n \in 1..Len(lines) :
          /\ setters[n].attr = TAG_MAP(lines[n].key).attr
          /\ setters[n].value = lines[n].value

\* Every recognized line has a value that is UTF-8.
RecognizedDecode(text) ==
    \A n \in 1..Len(text) : IsRecognized(text[n]) => DecodeOk(text[n].value)

\* C12, as claimed: for every listing the extractor returns one setter for
\* each recognized key, from the first line with that key, and none for
\* other keys.
C12_FirstOccurrenceOnly ==
    (bench.pc = "setters" /\ RecognizedDecode(bench.text))
        => SettersOf(bench.setters, FirstOnly(bench.text, Len(bench.text)))

\* C12, amended: for every listing whose recognized lines are UTF-8 the
\* extractor returns one setter for each recognized line, in the order of
\* the lines (a key on k lines gives k setters), and none for other lines;
\* for any other listing it raises.
C12_OnePerLine ==
    bench.pc \notin {"off", "text"} =>
        IF RecognizedDecode(bench.text)
        THEN bench.pc # "extract_raised"
             /\ SettersOf(bench.setters, Recognized(bench.text))
        ELSE bench.pc = "extract_raised"

C12_Witness ==
    /\ bench.pc = "setters"
    /\ bench.text = <<Line("TITLE", <<"F">>), Line("COMMENT", <<"c">>), Line("TITLE", <<"G">>)>>
    /\ Len(bench.setters) = 2
    /\ bench.setters[1].value = <<"F">> /\ bench.setters[2].value = <<"G">>

\* ------------------------------------------------ the coordinator's inputs
\* A member whose name differs from Flac(1) only in the case of its extension.
FlacUpper == [Flac(1) EXCEPT !.ext = ".FLAC"]

\* Command lines with a root path given twice, with root paths that overlap
\* (a directory and an archive in it), and with two archives of the same
\* artist and album.
CoordArgs ==
    { [paths |-> <<ZipA, ZipA>>, descend |-> TRUE],
      [paths |-> <<InDir, ZipA>>, descend |-> TRUE],
      [paths |-> <<ZipA, ZipDup>>, descend |-> TRUE] }

\* The directory ZipA and ZipDup are unpacked to.
DestXY == dest_root \o generate_dest_dir_name(ZipA)

\* The program is started on such a command line.  ZipA holds two members
\* named alike but for the case of the extension; the directory of ZipA may
\* be there already, with a FLAC file that was never converted.
InitCoord ==
    /\ args \in CoordArgs
    /\ tools = [c \in Commands |-> "ok"]
    /\ checks = 0
    /\ \E ls \in [{Flac(1), FlacUpper} -> {ListGood, ListBadTrack}] :
         zipFlac = [z \in Zips |-> IF z = ZipA THEN ls ELSE [m \in {Flac(1)} |-> ListGood]]
    /\ zipMp3 = [z \in Zips |-> {}]
    /\ \E left \in BOOLEAN :
         /\ disk = Zips \cup (IF left THEN {Under(DestXY, Flac(1))} ELSE {})
         /\ dirs = {<<>>, << <<"in">> >>, << <<"in2">> >>, dest_root}
                     \cup (IF left THEN makedirs({}, DestXY) ELSE {})
         /\ audio = IF left THEN [f \in {Under(DestXY, Flac(1))} |-> ListGood] ELSE <<>>
    /\ id3 = <<>>
    /\ run = 1
    /\ snap = [disk |-> disk, dirs |-> dirs, id3 |-> id3]
    /\ mainPc = "check"
    /\ mainRet = None
    /\ pathIdx = 1
    /\ zipq = <<>>
    /\ pl = <<>>
    /\ bench = BenchOff

SpecCoord == InitCoord /\ [][Next]_vars

\* The pipeline has passed its entry check and has not ended.
Active(k) == pl[k].pc \in {"join", "tagging", "removing"}

\* C13: in every run, on command lines with duplicated and overlapping root
\* paths and with archives of the same destination directory, no two
\* convert_flac coroutines have the same source file.
C13_ExclusiveSource ==
    \A j \in DOMAIN pl, k \in DOMAIN pl : j # k => pl[j].flac # pl[k].flac

C13_Witness ==
    /\ args.paths = <<ZipA, ZipA>>
    /\ mainPc = "gather"
    /\ Len(pl) = 2
    /\ \A k \in DOMAIN pl : Active(k)

\* C14: in every run, no two pipelines that have passed the entry check and
\* have not ended have the same output path, also when their source files
\* differ only in the case of the extension.
C14_NoSharedOutput ==
    \A j \in DOMAIN pl, k \in DOMAIN pl :
        (j # k /\ Active(j) /\ Active(k)) => pl[j].mp3 # pl[k].mp3

\* C15: the decode/encode chain of a file is launched in the first turn of
\* convert_file_only; its launch never waits for a run of the tag extraction
\* of that file to end.
C15_ChainLaunchNoWait ==
    [][\A k \in DOMAIN pl :
          (k \in DOMAIN pl' /\ pl[k].cv # "pipe" /\ pl'[k].cv = "pipe")
              => pl[k].cv = "ready"]_vars

\* The two children of the pipeline are over.
ChildrenOver(k) == pl[k].tt \in {"done", "raised"} /\ pl[k].cv \in {"done", "raised"}

\* C16: a pipeline that was not skipped on entry has returned or raised only
\* when both its tag extraction and its transcode are over, so that none of
\* its processes is still running.
C16_JoinWaitsForBoth ==
    \A k \in DOMAIN pl :
        (Terminal(k) /\ pl[k].tt # "new") => ChildrenOver(k)

\* C17: once the transcode of a file has failed (lame ended with a non-zero
\* exit code), the output file is gone, no tag is ever saved, and
\* convert_flac raises nothing: it returns None, whatever the listing of the
\* file holds.
C17_TranscodeFailureWins ==
    \A k \in DOMAIN pl :
        pl[k].rc2 > 0 =>
            /\ pl[k].pc \in {"join", "returned"}
            /\ pl[k].ret = "None"
            /\ ~pl[k].saved
            /\ pl[k].exc = ""
            /\ pl[k].gexc = "RuntimeError"
            /\ pl[k].mp3 \notin disk

C17_Witness ==
    \E k \in DOMAIN pl :
        /\ pl[k].rc2 > 0
        /\ pl[k].pc = "returned"
        /\ BadTrackNumber(audio[pl[k].flac])
        /\ pl[k].tt = "done"
        /\ pl[k].setters # <<>>

\* C18: the track number is parsed when the listing is turned into setters:
\* a listing with a TRACKNUMBER that is no number makes the extraction raise,
\* and a TRACKNUMBER that is the number n gives the track number (n, None).
C18_StrictAtExtraction ==
    /\ (bench.pc \notin {"off", "text"} /\ BadTrackNumber(bench.text))
           => bench.pc = "extract_raised"
    /\ (bench.pc = "saved" /\ bench.tag["track_num"].set)
           => \E n \in 1..Len(bench.text) :
                 /\ bench.text[n].key = "TRACKNUMBER" /\ IntOk(bench.text[n].value)
                 /\ bench.tag["track_num"] = TrackNum(IntOf(bench.text[n].value))
                 /\ bench.tag["track_num"].total = None

\* The setters of the list that write the attribute.
SettersFor(setters, a) == {n \in 1..Len(setters) : setters[n].attr = a}

\* C19, as claimed: the list the extractor returns holds at most one setter
\* for each attribute.
C19_SingleAssignment ==
    bench.pc = "setters" =>
        \A a \in Attrs : Cardinality(SettersFor(bench.setters, a)) <= 1

\* C19, amended: the list the extractor returns holds one setter for every
\* line that carries the key of an attribute, and once set_tags has applied
\* the list and saved, every attribute has the value of the last line that
\* carries its key.
C19_LastWins ==
    /\ bench.pc \in {"setters", "saved", "apply_raised"} =>
          \A a \in Attrs :
              Cardinality(SettersFor(bench.setters, a))
                  = Cardinality({n \in 1..Len(bench.text) :
                                    bench.text[n].match /\ bench.text[n].key = KeyOf(a)})
    /\ bench.pc = "saved" => bench.tag = ExpectedTag(bench.text)

C19_Witness ==
    /\ bench.pc = "saved"
    /\ bench.text = <<Line("TITLE", <<"F">>), Line("TRACKNUMBER", <<"7">>), Line("TITLE", <<"G">>)>>
    /\ Cardinality(SettersFor(bench.setters, "title")) = 2
    /\ bench.tag["title"] = Text(<<"G">>)

\* The directory the archive at the head of the queue maps to.
HeadDest == dest_root \o generate_dest_dir_name(Head(zipq))

\* main_loop takes an archive from the queue whose directory exists.
SkipStep ==
    /\ mainPc = "discover" /\ zipq # <<>> /\ zipq' = Tail(zipq)
    /\ generate_dest_dir_name(Head(zipq)) # None
    /\ HeadDest \in dirs

\* The pipelines of a list that have their source file below a directory.
PipelinesUnder(p, d) == {k \in DOMAIN p : IsPrefix(d, p[k].flac.dir)}

\* C20, as claimed: when main_loop comes to an archive whose directory
\* exists, this run has no pipeline for a file below that directory.
C20_NoPipelineUnderExisting ==
    [][SkipStep => PipelinesUnder(pl', HeadDest) = {}]_vars

\* C20, amended: when main_loop comes to an archive whose directory exists,
\* nothing is unpacked and no pipeline is added; and when the directory was
\* there at the start of the run, this run has no pipeline for a file below
\* it.
C20_SkippedArchiveAddsNone ==
    [][SkipStep =>
          /\ pl' = pl /\ disk' = disk
          /\ HeadDest \in snap.dirs => PipelinesUnder(pl', HeadDest) = {}]_vars

C20_Witness ==
    /\ run = 2
    /\ args.paths = <<ZipA, ZipDup>>
    /\ mainPc = "gather"
    /\ pl = <<>>
    /\ \E f \in disk : Lower(f.ext) = ".flac" /\ IsPrefix(DestXY, f.dir) /\ Mp3Path(f) \notin disk
====
